---- MODULE Spec2Model ----
(***************************************************************************)
(* A model of the GSOD weather-processing pipeline:                        *)
(*   read_gsod_data.py       read_gsod_file, unzip_gsod_files              *)
(*   simple_monthly_class.py processing_monthly_data                       *)
(*   data_filtering.py       datafiltering, read_history, shift_data      *)
(*                                                                         *)
(* Representation.  A Python str is a sequence of one-character strings,   *)
(* so that slicing, replace, join and the substring test are computed.    *)
(* A float is a record [nan, v]: nan says whether it is float('nan'), v   *)
(* is an exact integer numerator in the unit fixed by the column (see     *)
(* the conversions of read_gsod_file).  A DataFrame is a record           *)
(* [columns, rows, error]: the set of column names, the sequence of rows   *)
(* (functions from column name to value) and the exception raised while   *)
(* building it ("" when none).                                            *)
(***************************************************************************)
EXTENDS Integers, Sequences, FiniteSets, TLC

VARIABLES
    pc,           \* which call of the component under study has returned
    filtereddf,   \* shift_data: the filtered monthly table passed in
    locdf,        \* shift_data: the location table passed in
    overall_df,   \* shift_data: the table returned by the first call
    again_df,     \* shift_data: the table returned by a second call
    csv_df,       \* datafiltering: the table read from csvfilename
    filtered_out, \* datafiltering: the table returned
    op_lines,     \* read_gsod_file: the data lines of the .op file
    raw_df,       \* read_gsod_file: the rows pd.read_csv makes of them
    ori_df,       \* read_gsod_file: the table returned
    maintar,      \* unzip_gsod_files: the members of the tar archive
    numfile,      \* unzip_gsod_files: the cap argument
    pos,          \* unzip_gsod_files: members iterated when the call ended
    num,          \* unzip_gsod_files: the counter num
    disk,         \* unzip_gsod_files: extracted files present on disk
    dfdict,       \* unzip_gsod_files: the items of the dict, in insertion order
    processed,    \* unzip_gsod_files: members extracted and handed to the parser
    finaldf,      \* processing_monthly_data: the monthly table returned
    registry,     \* the lines of isd-history.txt
    opfiles       \* the stations whose .op files make the weather side

vars == <<pc, filtereddf, locdf, overall_df, again_df, csv_df, filtered_out,
          op_lines, raw_df, ori_df, maintar, numfile, pos, num, disk, dfdict,
          processed, finaldf, registry, opfiles>>

-----------------------------------------------------------------------------
(* Python values *)

NaN == [nan |-> TRUE, v |-> 0]

Num(n) == [nan |-> FALSE, v |-> n]

isnan(x) == x.nan

DigitChars == <<"0", "1", "2", "3", "4", "5", "6", "7", "8", "9">>

Digit(d) == DigitChars[d + 1]

RECURSIVE ZeroPad(_, _)
\* '%0<w>i' % n for n >= 0: the decimal digits of n, zero-padded to w places
ZeroPad(n, w) ==
    IF w <= 1 /\ n < 10 THEN <<Digit(n)>>
    ELSE ZeroPad(n \div 10, w - 1) \o <<Digit(n % 10)>>

\* needle in hay, for two str
Contains(needle, hay) ==
    \E i \in 1..(Len(hay) - Len(needle) + 1) :
        SubSeq(hay, i, i + Len(needle) - 1) = needle

EmptyFrame == [columns |-> {}, rows |-> <<>>, error |-> ""]

Raised(exc) == [columns |-> {}, rows |-> <<>>, error |-> exc]

RECURSIVE Flatten(_)
Flatten(ss) == IF ss = <<>> THEN <<>> ELSE Head(ss) \o Flatten(Tail(ss))

-----------------------------------------------------------------------------
(* Column names *)

Quantities == <<"tmp", "dew", "stp", "wpd", "prec", "sndp">>

Statistics == <<"mean", "max", "min">>

Str(s) ==
    CASE s = "tmp"  -> <<"t", "m", "p">>
      [] s = "dew"  -> <<"d", "e", "w">>
      [] s = "stp"  -> <<"s", "t", "p">>
      [] s = "wpd"  -> <<"w", "p", "d">>
      [] s = "prec" -> <<"p", "r", "e", "c">>
      [] s = "sndp" -> <<"s", "n", "d", "p">>
      [] s = "mean" -> <<"m", "e", "a", "n">>
      [] s = "max"  -> <<"m", "a", "x">>
      [] s = "min"  -> <<"m", "i", "n">>
      [] s = "stn"  -> <<"s", "t", "n">>
      [] s = "LAT"  -> <<"L", "A", "T">>
      [] s = "LON"  -> <<"L", "O", "N">>
      [] s = "USAF" -> <<"U", "S", "A", "F">>
      [] s = "WBAN" -> <<"W", "B", "A", "N">>
      [] s = "STN_NM" -> <<"S", "T", "N", "_", "N", "M">>
      [] s = "CTRY" -> <<"C", "T", "R", "Y">>
      [] s = "ST"   -> <<"S", "T">>
      [] s = "CALL" -> <<"C", "A", "L", "L">>
      [] s = "ELEV" -> <<"E", "L", "E", "V">>
      [] s = "BEGIN" -> <<"B", "E", "G", "I", "N">>
      [] s = "END"  -> <<"E", "N", "D">>
      [] s = "_x"   -> <<"_", "x">>
      [] s = "_y"   -> <<"_", "y">>
      [] s = "mn"   -> <<"m", "n">>
      [] s = "date" -> <<"d", "a", "t", "e">>
      [] s = "max_tmp" -> <<"m", "a", "x", "_", "t", "m", "p">>
      [] s = "min_tmp" -> <<"m", "i", "n", "_", "t", "m", "p">>
      [] s = "count_tmp" -> <<"c", "o", "u", "n", "t", "_", "t", "m", "p">>
      [] s = "count_dew" -> <<"c", "o", "u", "n", "t", "_", "d", "e", "w">>
      [] s = "count_stp" -> <<"c", "o", "u", "n", "t", "_", "s", "t", "p">>
      [] s = "count_wpd" -> <<"c", "o", "u", "n", "t", "_", "w", "p", "d">>

\* ''.join([txt, '%02i' % ind, suffix])
MonthCol(txt, ind, suffix) == Str(txt) \o ZeroPad(ind, 2) \o Str(suffix)

Months == 1..12

\* colnames of processing_monthly_data, without 'stn'
MonthlyCols ==
    { MonthCol(Quantities[q], m, Statistics[s]) :
        q \in 1..6, m \in Months, s \in 1..3 }

HistoryNames == <<"USAF", "WBAN", "STN_NM", "CTRY", "ST", "CALL", "LAT", "LON",
                  "ELEV", "BEGIN", "END">>

-----------------------------------------------------------------------------
(* Typed cell values other than floats *)

PyStr(s) == [str |-> s]

PyInt(n) == [int |-> n]

-----------------------------------------------------------------------------
(* data_filtering.py: read_history *)

\* ''.join(['%06i' % stn, ' ', '%05i' % wban])
StnKey(usaf, wban) == PyStr(ZeroPad(usaf, 6) \o <<" ">> \o ZeroPad(wban, 5))

LocColumns == { Str(HistoryNames[i]) : i \in 1..Len(HistoryNames) } \cup {Str("stn")}

\* one row of the frame read_history returns, for a registry line
\* (USAF, WBAN, LAT); the other registry fields do not enter any computation
HistoryRow(usaf, wban, lat) ==
    [c \in LocColumns |->
        CASE c = Str("USAF") -> PyInt(usaf)
          [] c = Str("WBAN") -> PyInt(wban)
          [] c = Str("LAT")  -> lat
          [] c = Str("stn")  -> StnKey(usaf, wban)
          [] c = Str("LON")  -> Num(0)
          [] c = Str("ELEV") -> Num(0)
          [] c = Str("BEGIN") -> PyInt(0)
          [] c = Str("END")  -> PyInt(0)
          [] OTHER -> PyStr(<<>>)]

read_history(lines) ==
    [columns |-> LocColumns,
     rows    |-> [i \in 1..Len(lines) |->
                    HistoryRow(lines[i].usaf, lines[i].wban, lines[i].lat)],
     error   |-> ""]

-----------------------------------------------------------------------------
(* data_filtering.py: shift_data *)

\* DataFrame.merge(right, how='inner', on=key): the overlapping columns other
\* than the key are renamed with the suffixes _x (left) and _y (right); the
\* rows are the pairs with equal keys, in the order of the left rows and,
\* for one left row, in the order of the right rows.
MergedName(c, others, key, suffix) ==
    IF c # key /\ c \in others THEN c \o Str(suffix) ELSE c

MergedRow(l, r, lcols, rcols, key) ==
    LET lnew == { MergedName(c, rcols, key, "_x") : c \in lcols }
        rnew == { MergedName(c, lcols, key, "_y") : c \in rcols \ {key} }
        unsuffixed(c) == SubSeq(c, 1, Len(c) - 2)
    IN  [c \in lnew \cup rnew |->
            IF c \in lcols /\ MergedName(c, rcols, key, "_x") = c THEN l[c]
            ELSE IF c \in lnew THEN l[unsuffixed(c)]
            ELSE IF c \in rcols /\ MergedName(c, lcols, key, "_y") = c THEN r[c]
            ELSE r[unsuffixed(c)]]

merge(left, right, key) ==
    LET matches(i) ==
            SelectSeq([j \in 1..Len(right.rows) |-> j],
                      LAMBDA j : right.rows[j][key] = left.rows[i][key])
        joined(i) ==
            [k \in 1..Len(matches(i)) |->
                MergedRow(left.rows[i], right.rows[matches(i)[k]],
                          left.columns, right.columns, key)]
    IN  [columns |-> { MergedName(c, right.columns, key, "_x") : c \in left.columns }
                     \cup { MergedName(c, left.columns, key, "_y") :
                              c \in right.columns \ {key} },
         rows    |-> Flatten([i \in 1..Len(left.rows) |-> joined(i)]),
         error   |-> ""]

\* overall_df['LAT'] <= 0.0: the equator counted as south
SouthIndOrEquator(row) == ~isnan(row[Str("LAT")]) /\ row[Str("LAT")].v <= 0

\* south_ind = overall_df['LAT'] < 0.0, for one row (nan < 0.0 is False)
SouthInd(row) == ~isnan(row[Str("LAT")]) /\ row[Str("LAT")].v < 0

\* range(1, 6): the loop stops one month short
ShiftMonthsShort == <<1, 2, 3, 4, 5>>

\* range(1, 7)
ShiftMonths == <<1, 2, 3, 4, 5, 6>>

\* the exchange without the copy: fut_mn is assigned from now_mn after now_mn
\* was overwritten
SwapColumnsNoTemp(row, now_mn, fut_mn) ==
    LET step1 == (now_mn :> row[fut_mn]) @@ row
    IN  (fut_mn :> step1[now_mn]) @@ step1

\* lines 131-137 for one row of south_ind: temp_series is a copy of the
\* now_mn values, now_mn takes the fut_mn values, fut_mn takes temp_series
SwapColumns(row, now_mn, fut_mn) ==
    LET temp_series == row[now_mn]
        step1 == (now_mn :> row[fut_mn]) @@ row
    IN  (fut_mn :> temp_series) @@ step1

\* the (ind, txt, suffix) iterations of the three nested loops, in order
ShiftIterations ==
    Flatten([i \in 1..Len(ShiftMonths) |->
        Flatten([q \in 1..Len(Quantities) |->
            [s \in 1..Len(Statistics) |->
                [ind |-> ShiftMonths[i], txt |-> Quantities[q],
                 suffix |-> Statistics[s]]]])])

RECURSIVE ShiftRange(_, _, _)
\* iterations lo..hi of the loops applied to one row, in order.  The range is
\* halved and the columns of the first half's result are looked at before the
\* second half starts, which keeps the evaluation shallow; the iterations and
\* their order are those of the loops.
ShiftRange(row, lo, hi) ==
    IF lo > hi THEN row
    ELSE IF lo = hi
    THEN LET it == ShiftIterations[lo]
         IN  SwapColumns(row,
                         MonthCol(it.txt, it.ind, it.suffix),
                         MonthCol(it.txt, it.ind + 6, it.suffix))
    ELSE LET mid == (lo + hi) \div 2
             first == ShiftRange(row, lo, mid)
         IN  IF DOMAIN first = DOMAIN row
             THEN ShiftRange(first, mid + 1, hi)
             ELSE first

ShiftRow(row) == ShiftRange(row, 1, Len(ShiftIterations))

shift_data(filtered, loc) ==
    LET merged == merge(filtered, loc, Str("stn"))
    IN  IF Str("LAT") \notin merged.columns THEN Raised("KeyError")
        ELSE IF ~(MonthlyCols \subseteq merged.columns) /\ merged.rows # <<>>
        THEN Raised("KeyError")
        ELSE [merged EXCEPT !.rows =
                [i \in 1..Len(merged.rows) |->
                    IF SouthInd(merged.rows[i])
                    THEN ShiftRow(merged.rows[i])
                    ELSE merged.rows[i]]]

-----------------------------------------------------------------------------
(* read_gsod_data.py: read_gsod_file *)

IsDigit(ch) == \E d \in 0..9 : Digit(d) = ch

DigitOf(ch) == CHOOSE d \in 0..9 : Digit(d) = ch

RECURSIVE DigitsValue(_)
\* int(text) for a str of digits ('' counts 0)
DigitsValue(text) ==
    IF text = <<>> THEN 0
    ELSE 10 * DigitsValue(SubSeq(text, 1, Len(text) - 1)) + DigitOf(text[Len(text)])

RECURSIVE Pow10(_)
Pow10(k) == IF k <= 0 THEN 1 ELSE 10 * Pow10(k - 1)

DotAt(text) ==
    IF \E i \in 1..Len(text) : text[i] = "."
    THEN CHOOSE i \in 1..Len(text) : text[i] = "." /\ \A j \in 1..(i - 1) : text[j] # "."
    ELSE Len(text) + 1

\* whether float(text) succeeds: digits with at most one point, not only a point
IsFloatText(text) ==
    /\ \E i \in 1..Len(text) : IsDigit(text[i])
    /\ \A i \in 1..Len(text) : IsDigit(text[i]) \/ (text[i] = "." /\ i = DotAt(text))

\* whether int(text) succeeds
IsIntText(text) == text # <<>> /\ \A i \in 1..Len(text) : IsDigit(text[i])

\* float(text) as the integer float(text) * 10^places, for a text with at most
\* places digits after the point
Scaled(text, places) ==
    LET whole == SubSeq(text, 1, DotAt(text) - 1)
        frac  == SubSeq(text, DotAt(text) + 1, Len(text))
    IN  DigitsValue(whole) * Pow10(places) + DigitsValue(frac) * Pow10(places - Len(frac))

\* text.replace(ch, '')
RECURSIVE Remove(_, _)
Remove(text, ch) ==
    IF text = <<>> THEN <<>>
    ELSE (IF Head(text) = ch THEN <<>> ELSE <<Head(text)>>) \o Remove(Tail(text), ch)

\* the token positions of a line that read_gsod_file uses
RawCols == {0, 2, 3, 4, 5, 6, 9, 10, 13, 14, 17, 18, 19, 20}

\* digits after the point in the fields of a GSOD line
Places(col) == IF col = 19 THEN 2 ELSE 1

\* pd.read_csv on the lines of a file: a column whose tokens are all integers
\* is an int column, one whose tokens are all numbers is a float column (held
\* as the number times 10^Places), any other column holds the tokens as str
ColumnIsInt(lines, col) == \A i \in 1..Len(lines) : IsIntText(lines[i][col])

ColumnIsFloat(lines, col) == \A i \in 1..Len(lines) : IsFloatText(lines[i][col])

read_csv(lines) ==
    [i \in 1..Len(lines) |->
        [col \in RawCols |->
            IF ColumnIsInt(lines, col) /\ col \in {0, 2, 4, 6, 10, 14}
            THEN PyInt(DigitsValue(lines[i][col]))
            ELSE IF ColumnIsFloat(lines, col)
            THEN Num(Scaled(lines[i][col], Places(col)))
            ELSE PyStr(lines[i][col])]]

IsStrCell(x) == "str" \in DOMAIN x

\* 9999.9, 999.9 and 99.99 at the scale of their columns
Sentinel9999 == 99999

Sentinel999 == 9999

Sentinel99 == 9999

\* series.replace(sentinel, value) for one cell of a float column
Replace(x, sentinel, value) == IF ~isnan(x) /\ x.v = sentinel THEN value ELSE x

\* (x - 32.0) * 5. / 9., in units of 1/90 degree for x in tenths of a degree
FtoC(x) == IF isnan(x) THEN NaN ELSE Num((x.v - 320) * 5)

\* x * 100.0, in Pa for x in tenths of a hPa
ToPa(x) == IF isnan(x) THEN NaN ELSE Num(x.v * 10)

\* x * 0.5144444444444, in units of 0.05144444444444 m/s for x in tenths of a knot
ToMs(x) == IF isnan(x) THEN NaN ELSE Num(x.v)

\* x * 25.4 for x in hundredths of an inch, in thousandths of a mm
PrecToMm(x) == IF isnan(x) THEN NaN ELSE Num(x.v * 254)

\* x * 25.4 for x in tenths of an inch, in hundredths of a mm
SnowToMm(x) == IF isnan(x) THEN NaN ELSE Num(x.v * 254)

\* '9999.9' and '99.99'
Text9999 == <<"9", "9", "9", "9", ".", "9">>

Text99 == <<"9", "9", ".", "9", "9">>

\* lines 86-90 and 95-99, one token of a str column:
\* (float(ind.replace('*', ''))-32.0)*5./9. if ind != '9999.9' else float('nan')
MaxMinFromStr(ind) ==
    IF ind # Text9999 THEN FtoC(Num(Scaled(Remove(ind, "*"), 1))) ELSE NaN

\* the str branch of prec without its sentinel test
PrecFromStrNoSentinel(ind) == PrecToMm(Num(Scaled(SubSeq(ind, 1, Len(ind) - 1), 2)))

\* lines 104-107, one token of a str column:
\* float(ind[:-1])*25.4 if ind != '99.99' else float('nan')
PrecFromStr(ind) ==
    IF ind # Text99 THEN PrecToMm(Num(Scaled(SubSeq(ind, 1, Len(ind) - 1), 2))) ELSE NaN

\* whether the float(...) calls of the str branches succeed on every token
StrBranchesParse(raw) ==
    \A i \in 1..Len(raw) :
        /\ \A col \in {17, 18} :
              (IsStrCell(raw[1][col]) /\ raw[i][col].str # Text9999)
                 => IsFloatText(Remove(raw[i][col].str, "*"))
        /\ (IsStrCell(raw[1][19]) /\ raw[i][19].str # Text99)
              => IsFloatText(SubSeq(raw[i][19].str, 1, Len(raw[i][19].str) - 1))

\* date(int(str(text)[0:4]), int(str(text)[4:6]), int(str(text)[6:8]))
DateOf(n) == [year |-> n \div 10000, month |-> (n \div 100) % 100, day |-> n % 100]

ValidDate(d) == d.month \in 1..12 /\ d.day \in 1..31 /\ d.year \in 1..9999

DailyNames == <<"stn", "date", "tmp", "dew", "stp", "wpd", "count_tmp", "count_dew",
                "count_stp", "count_wpd", "max_tmp", "min_tmp", "prec", "sndp">>

DailyColumns == { Str(DailyNames[i]) : i \in 1..Len(DailyNames) }

\* one row of ori_df from the row of raw_df at the same index
DailyRow(r, strMax, strMin, strPrec) ==
    [c \in DailyColumns |->
        CASE c = Str("stn")  -> r[0]
          [] c = Str("date") -> DateOf(r[2].int)
          [] c = Str("tmp")  -> FtoC(Replace(r[3], Sentinel9999, NaN))
          [] c = Str("dew")  -> FtoC(Replace(r[5], Sentinel9999, NaN))
          [] c = Str("stp")  -> ToPa(Replace(r[9], Sentinel9999, NaN))
          [] c = Str("wpd")  -> ToMs(Replace(r[13], Sentinel999, NaN))
          [] c = Str("count_tmp") -> r[4]
          [] c = Str("count_dew") -> r[6]
          [] c = Str("count_stp") -> r[10]
          [] c = Str("count_wpd") -> r[14]
          [] c = Str("max_tmp") ->
                IF strMax THEN MaxMinFromStr(r[17].str)
                ELSE FtoC(Replace(r[17], Sentinel9999, NaN))
          [] c = Str("min_tmp") ->
                IF strMin THEN MaxMinFromStr(r[18].str)
                ELSE FtoC(Replace(r[18], Sentinel9999, NaN))
          [] c = Str("prec") ->
                IF strPrec THEN PrecFromStr(r[19].str)
                ELSE PrecToMm(Replace(r[19], Sentinel99, NaN))
          [] c = Str("sndp") -> SnowToMm(Replace(r[20], Sentinel999, Num(0)))]

\* read_gsod_file on the data lines of a file (the header line is skipped)
read_gsod_file(lines) ==
    LET raw == read_csv(lines)
    IN  IF \E i \in 1..Len(raw) :
              ~("int" \in DOMAIN raw[i][2]) \/ ~ValidDate(DateOf(raw[i][2].int))
        THEN Raised("ValueError")
        ELSE IF \E i \in 1..Len(raw) : \E col \in {3, 5, 9, 13, 20} : IsStrCell(raw[i][col])
        THEN Raised("TypeError")
        ELSE IF raw = <<>> THEN Raised("KeyError")
        ELSE IF ~StrBranchesParse(raw) THEN Raised("ValueError")
        ELSE [columns |-> DailyColumns,
              rows    |-> [i \in 1..Len(raw) |->
                             DailyRow(raw[i], IsStrCell(raw[1][17]),
                                      IsStrCell(raw[1][18]), IsStrCell(raw[1][19]))],
              error   |-> ""]

-----------------------------------------------------------------------------
(* read_gsod_data.py: unzip_gsod_files *)

Inf == [inf |-> TRUE]

\* num > numfile, for numfile a number, float('nan') or float('inf')
ExceedsCap(n, cap) ==
    IF "inf" \in DOMAIN cap THEN FALSE
    ELSE IF isnan(cap) THEN FALSE
    ELSE n > cap.v

\* '.gz'
GzText == <<".", "g", "z">>

\* dfdict[key] = df, for a dict held as the sequence of its items in insertion order
DictSet(items, key, df) ==
    IF \E k \in 1..Len(items) : items[k].key = key
    THEN [k \in 1..Len(items) |->
            IF items[k].key = key THEN [key |-> key, df |-> df] ELSE items[k]]
    ELSE Append(items, [key |-> key, df |-> df])

\* lines 141-149 for one member, from the state st of the call
UnzipMember(st, member) ==
    IF Contains(GzText, member.name)
    THEN CHOOSE out \in
           { IF df.error # ""
             \* read_gsod_file raises inside the with block: remove() is not reached
             THEN [st EXCEPT !.disk = st.disk \cup {member.name},
                             !.processed = st.processed + 1,
                             !.error = df.error]
             ELSE [st EXCEPT !.dfdict = DictSet(st.dfdict, df.rows[1][Str("stn")], df),
                             !.num = st.num + 1,
                             !.processed = st.processed + 1]
             : df \in {read_gsod_file(member.lines)} } : TRUE
    ELSE st

RECURSIVE UnzipFrom(_, _, _)
\* the for loop over the archive from member k on: the body, then the test
\* num > numfile that breaks the loop
UnzipFrom(st, members, cap) ==
    IF st.pos >= Len(members) THEN st
    ELSE CHOOSE out \in
           { IF after.error # "" THEN after
             ELSE IF ExceedsCap(after.num, cap) THEN after
             ELSE UnzipFrom(after, members, cap)
             : after \in {UnzipMember([st EXCEPT !.pos = st.pos + 1], members[st.pos + 1])} } : TRUE

unzip_gsod_files(members, cap) ==
    UnzipFrom([pos |-> 0, num |-> 0, disk |-> {}, dfdict |-> <<>>, processed |-> 0,
               error |-> ""], members, cap)

-----------------------------------------------------------------------------
(* simple_monthly_class.py: processing_monthly_data *)

RECURSIVE SumSeq(_)
SumSeq(xs) == IF xs = <<>> THEN 0 ELSE Head(xs).v + SumSeq(Tail(xs))

\* Series.mean(), .max(), .min(): missing values are skipped, and the result
\* is nan when nothing is left; the mean is held as the sum and the count
SeriesMean(xs) ==
    LET valid == SelectSeq(xs, LAMBDA x : ~isnan(x))
    IN  IF valid = <<>> THEN NaN
        ELSE [nan |-> FALSE, v |-> SumSeq(valid), n |-> Len(valid)]

SeriesMax(xs) ==
    LET valid == SelectSeq(xs, LAMBDA x : ~isnan(x))
    IN  IF valid = <<>> THEN NaN
        ELSE Num(CHOOSE m \in { valid[i].v : i \in 1..Len(valid) } :
                    \A i \in 1..Len(valid) : valid[i].v <= m)

SeriesMin(xs) ==
    LET valid == SelectSeq(xs, LAMBDA x : ~isnan(x))
    IN  IF valid = <<>> THEN NaN
        ELSE Num(CHOOSE m \in { valid[i].v : i \in 1..Len(valid) } :
                    \A i \in 1..Len(valid) : valid[i].v >= m)

\* df.loc[df['mn'] == ind, txt]
MonthSeries(df, ind, txt) ==
    LET picked == SelectSeq(df.rows, LAMBDA r : r[Str("mn")] = PyInt(ind))
    IN  [i \in 1..Len(picked) |-> picked[i][Str(txt)]]

\* the row of finaldf for one station (lines 64-76)
MonthlyRow(stn, df) ==
    [c \in MonthlyCols \cup {Str("stn")} |->
        IF c = Str("stn") THEN stn
        ELSE LET t == CHOOSE t \in { <<q, m, k>> : q \in 1..6, m \in Months, k \in 1..3 } :
                         MonthCol(Quantities[t[1]], t[2], Statistics[t[3]]) = c
                 series == MonthSeries(df, t[2], Quantities[t[1]])
             IN  CASE t[3] = 1 -> SeriesMean(series)
                   [] t[3] = 2 -> SeriesMax(series)
                   [] t[3] = 3 -> SeriesMin(series)]

processing_monthly_data(members, cap) ==
    CHOOSE out \in
      { IF unz.error # "" THEN Raised(unz.error)
        \* df['mn'] on a table of read_gsod_file, which has no column 'mn'
        ELSE IF \E k \in 1..Len(unz.dfdict) : Str("mn") \notin unz.dfdict[k].df.columns
        THEN Raised("KeyError")
        ELSE [columns |-> MonthlyCols \cup {Str("stn")},
              rows    |-> [k \in 1..Len(unz.dfdict) |->
                             MonthlyRow(unz.dfdict[k].key, unz.dfdict[k].df)],
              error   |-> ""]
        : unz \in {unzip_gsod_files(members, cap)} } : TRUE

-----------------------------------------------------------------------------
(* data_filtering.py: datafiltering *)

\* a missing cell, as DataFrame.dropna sees it
IsNull(x) == "nan" \in DOMAIN x /\ x.nan

\* for colnm in ['prec']: the snowfall columns forgotten
FillNamesPrecOnly == <<"prec">>

\* for colnm in ['prec', 'sndp']
FillNames == <<"prec", "sndp">>

\* for colnm in [...]: if colnm in col
NeedsFill(col) == \E k \in 1..Len(FillNames) : Contains(Str(FillNames[k]), col)

\* lines 51-54: df.loc[df[col].apply(isnan), col] = 0 for the columns to fill
FillZeros(df) ==
    [df EXCEPT !.rows =
        [i \in 1..Len(df.rows) |->
            [c \in df.columns |->
                IF NeedsFill(c) /\ isnan(df.rows[i][c]) THEN Num(0)
                ELSE df.rows[i][c]]]]

\* df.dropna(0): the rows without a missing cell, in order
dropna(df) ==
    [df EXCEPT !.rows =
        SelectSeq(df.rows, LAMBDA r : \A c \in df.columns : ~IsNull(r[c]))]

datafiltering(df) == dropna(FillZeros(df))

-----------------------------------------------------------------------------
(* Inputs of shift_data *)

MaxFiltered == 2

MaxLoc == 2

SeqsUpTo(S, n) == UNION { [1..k -> S] : k \in 0..n }

\* registry entries (USAF, WBAN) of the stations of the model
Stations == { [usaf |-> 10010, wban |-> 99999], [usaf |-> 943260, wban |-> 99999] }

\* registry lines (USAF, WBAN, LAT) of those stations, the latitude in
\* thousandths of a degree: south of, on and north of the equator
RegistryLines ==
    { [usaf |-> 10010,  wban |-> 99999, lat |-> Num(10000)],
      [usaf |-> 10010,  wban |-> 99999, lat |-> Num(-33900)],
      [usaf |-> 943260, wban |-> 99999, lat |-> Num(-33900)],
      [usaf |-> 943260, wban |-> 99999, lat |-> Num(0)] }

\* the number that row i of the input table holds in monthly column c: the
\* row, the month, the quantity and the statistic of the cell can be read off
\* it, so that every cell of a table holds a different number
CellNumber(i, c) ==
    LET q == CHOOSE k \in 1..Len(Quantities) :
                 SubSeq(c, 1, Len(Str(Quantities[k]))) = Str(Quantities[k])
        n == Len(Str(Quantities[q]))
        m == 10 * DigitOf(c[n + 1]) + DigitOf(c[n + 2])
        s == CHOOSE k \in 1..Len(Statistics) :
                 SubSeq(c, n + 3, Len(c)) = Str(Statistics[k])
    IN  1000 * i + 18 * (m - 1) + 3 * (q - 1) + s

WeatherRow(key, i) ==
    [c \in MonthlyCols \cup {Str("stn")} |->
        IF c = Str("stn") THEN key ELSE Num(CellNumber(i, c))]

WeatherFrame(keys) ==
    [columns |-> MonthlyCols \cup {Str("stn")},
     rows    |-> [i \in 1..Len(keys) |-> WeatherRow(keys[i], i)],
     error   |-> ""]

\* df[cols]
Project(df, cols) ==
    [df EXCEPT !.columns = cols,
               !.rows = [i \in 1..Len(df.rows) |-> [c \in cols |-> df.rows[i][c]]]]

ShiftIdle ==
    /\ filtereddf = EmptyFrame
    /\ locdf = EmptyFrame
    /\ overall_df = EmptyFrame
    /\ again_df = EmptyFrame

ShiftInit ==
    /\ pc = "start"
    /\ \E keys \in SeqsUpTo({ StnKey(st.usaf, st.wban) : st \in Stations }, MaxFiltered) :
          filtereddf = WeatherFrame(keys)
    /\ \E lines \in SeqsUpTo(RegistryLines, MaxLoc) : locdf = read_history(lines)
    /\ overall_df = EmptyFrame
    /\ again_df = EmptyFrame

\* OVERALL_DF_NEW = shift_data(FILTERED_DF, HISTORY_DF, '')
ShiftData ==
    /\ pc = "start"
    /\ overall_df' = shift_data(filtereddf, locdf)
    /\ pc' = "shifted"
    /\ UNCHANGED <<filtereddf, locdf, again_df>>

\* shift_data(OVERALL_DF_NEW, HISTORY_DF, ''): the returned table shifted again
ShiftReturned ==
    /\ pc = "shifted"
    /\ again_df' = shift_data(overall_df, locdf)
    /\ pc' = "again"
    /\ UNCHANGED <<filtereddf, locdf, overall_df>>

\* shift_data(OVERALL_DF_NEW[FILTERED_DF.columns], HISTORY_DF, ''): the weather
\* columns of the returned table shifted again
ShiftWeatherColumns ==
    /\ pc = "shifted"
    /\ again_df' = shift_data(Project(overall_df, filtereddf.columns), locdf)
    /\ pc' = "reshifted"
    /\ UNCHANGED <<filtereddf, locdf, overall_df>>

-----------------------------------------------------------------------------
(* The variables of the components a specification does not exercise *)

FilterIdle == csv_df = EmptyFrame /\ filtered_out = EmptyFrame

ParseIdle == op_lines = <<>> /\ raw_df = <<>> /\ ori_df = EmptyFrame

UnzipIdle ==
    /\ maintar = <<>>
    /\ numfile = NaN
    /\ pos = 0
    /\ num = 0
    /\ disk = {}
    /\ dfdict = <<>>
    /\ processed = 0

MonthlyIdle == finaldf = EmptyFrame

KeyIdle == registry = <<>> /\ opfiles = <<>>

shiftVars == <<filtereddf, locdf, overall_df, again_df>>

filterVars == <<csv_df, filtered_out>>

parseVars == <<op_lines, raw_df, ori_df>>

unzipVars == <<maintar, numfile, pos, num, disk, dfdict, processed>>

monthlyVars == <<finaldf>>

keyVars == <<registry, opfiles>>

-----------------------------------------------------------------------------
(* The Hemisphere Shifter alone: shift_data on every pair of tables *)

InitShift == ShiftInit /\ FilterIdle /\ ParseIdle /\ UnzipIdle /\ MonthlyIdle /\ KeyIdle

NextShift ==
    \/ ShiftData /\ UNCHANGED <<filterVars, parseVars, unzipVars, monthlyVars, keyVars>>
    \/ ShiftReturned /\ UNCHANGED <<filterVars, parseVars, unzipVars, monthlyVars, keyVars>>
    \/ ShiftWeatherColumns
         /\ UNCHANGED <<filterVars, parseVars, unzipVars, monthlyVars, keyVars>>

SpecShift == InitShift /\ [][NextShift]_vars

\* OVERALL_DF_OLD = FILTERED_DF.merge(HISTORY_DF, how='inner', on='stn')
OverallDfOld == merge(filtereddf, locdf, Str("stn"))

IsSouth(row) == ~isnan(row[Str("LAT")]) /\ row[Str("LAT")].v < 0

IsNorth(row) == ~isnan(row[Str("LAT")]) /\ row[Str("LAT")].v >= 0

\* C1: after shift_data, in every row of the joined table with LAT < 0, the
\* value of column q<m>s is the pre-shift value of column q<((m+5) mod 12)+1>s,
\* for every month m of 1..12, every quantity q and every statistic s.
C1_SouthRowsExchanged ==
    pc = "shifted" =>
        LET old == OverallDfOld
        IN  /\ overall_df.error = ""
            /\ Len(overall_df.rows) = Len(old.rows)
            /\ \A i \in 1..Len(old.rows) :
                  LET before == old.rows[i]
                      after  == overall_df.rows[i]
                  IN  IsSouth(before) =>
                         \A m \in 1..12, q \in 1..6, s \in 1..3 :
                            after[MonthCol(Quantities[q], m, Statistics[s])]
                              = before[MonthCol(Quantities[q], ((m + 5) % 12) + 1,
                                                Statistics[s])]

C1_Witness ==
    /\ pc = "shifted"
    /\ LET old == OverallDfOld
       IN  \E i \in 1..Len(overall_df.rows) :
              /\ IsSouth(overall_df.rows[i])
              /\ overall_df.rows[i][MonthCol("tmp", 1, "mean")]
                   # overall_df.rows[i][MonthCol("tmp", 7, "mean")]
              /\ overall_df.rows[i][MonthCol("tmp", 1, "mean")]
                   = old.rows[i][MonthCol("tmp", 7, "mean")]

\* C2: shift_data leaves every row with LAT >= 0 unchanged, in every monthly
\* column and every location column, whatever southern rows the table holds.
C2_NorthRowsUnchanged ==
    pc = "shifted" =>
        LET old == OverallDfOld
        IN  /\ overall_df.columns = old.columns
            /\ Len(overall_df.rows) = Len(old.rows)
            /\ \A i \in 1..Len(old.rows) :
                  IsNorth(old.rows[i]) => overall_df.rows[i] = old.rows[i]

C2_Witness ==
    /\ pc = "shifted"
    /\ LET old == OverallDfOld
       IN  \E i, j \in 1..Len(overall_df.rows) :
              /\ IsNorth(overall_df.rows[i])
              /\ IsSouth(overall_df.rows[j])
              /\ overall_df.rows[j] # old.rows[j]
              /\ overall_df.rows[i] = old.rows[i]

\* C3 as stated: shift_data applied to the table it returned, with the same
\* location table, gives back the joined table as it was before the first shift.
C3_SecondShiftRestores ==
    pc = "again" => again_df = OverallDfOld

UniqueStn(df) ==
    \A i, j \in 1..Len(df.rows) :
        df.rows[i][Str("stn")] = df.rows[j][Str("stn")] => i = j

\* C3 as amended: shift_data applied to the stn and monthly columns of the
\* table it returned, with the same location table holding one row per stn,
\* gives back the joined table as it was before the first shift.
C3_ShiftOfWeatherColumnsRestores ==
    (pc = "reshifted" /\ UniqueStn(locdf)) => again_df = OverallDfOld

C3_Witness ==
    /\ pc = "reshifted"
    /\ UniqueStn(locdf)
    /\ LET old == OverallDfOld
       IN  \E i \in 1..Len(overall_df.rows) :
              /\ IsSouth(overall_df.rows[i])
              /\ overall_df.rows[i] # old.rows[i]
              /\ again_df.rows[i] = old.rows[i]

-----------------------------------------------------------------------------
(* The Missing-Value Filter alone: datafiltering on monthly tables *)

MaxCsvRows == 2

\* the cells of a row of the monthly csv that may be missing in the model
ProbeCols == { MonthCol("tmp", 1, "mean"), MonthCol("prec", 1, "mean"),
               MonthCol("sndp", 7, "max") }

\* row i of the monthly csv, of station usaf, with the cells of absent missing
CsvRow(usaf, i, absent) ==
    [c \in MonthlyCols \cup {Str("stn")} |->
        IF c = Str("stn") THEN PyInt(usaf)
        ELSE IF c \in absent THEN NaN
        ELSE Num(CellNumber(i, c))]

InitFilter ==
    /\ pc = "start"
    /\ \E rows \in SeqsUpTo(SUBSET ProbeCols, MaxCsvRows) :
          csv_df = [columns |-> MonthlyCols \cup {Str("stn")},
                    rows    |-> [i \in 1..Len(rows) |-> CsvRow(10010 + i, i, rows[i])],
                    error   |-> ""]
    /\ filtered_out = EmptyFrame
    /\ ShiftIdle /\ ParseIdle /\ UnzipIdle /\ MonthlyIdle /\ KeyIdle

\* FILTERED_DF = datafiltering(csvfilename, newfilename)
DataFiltering ==
    /\ pc = "start"
    /\ filtered_out' = datafiltering(csv_df)
    /\ pc' = "filtered"
    /\ UNCHANGED <<csv_df, shiftVars, parseVars, unzipVars, monthlyVars, keyVars>>

NextFilter == DataFiltering

SpecFilter == InitFilter /\ [][NextFilter]_vars

IsPrecipOrSnow(c) == Contains(Str("prec"), c) \/ Contains(Str("sndp"), c)

\* C4: datafiltering returns exactly the input rows without an absent value in
\* a column whose name contains neither 'prec' nor 'sndp', in their order, with
\* every absent 'prec'/'sndp' value replaced by 0 and every other value
\* unchanged; no output row holds an absent value.
C4_FilterKeepsCompleteRows ==
    pc = "filtered" =>
        LET cols == csv_df.columns
            kept == SelectSeq(csv_df.rows,
                      LAMBDA r : \A c \in cols : ~IsPrecipOrSnow(c) => ~IsNull(r[c]))
        IN  /\ filtered_out.columns = cols
            /\ Len(filtered_out.rows) = Len(kept)
            /\ \A i \in 1..Len(kept) : \A c \in cols :
                  /\ ~IsNull(filtered_out.rows[i][c])
                  /\ filtered_out.rows[i][c] =
                        IF IsPrecipOrSnow(c) /\ IsNull(kept[i][c]) THEN Num(0)
                        ELSE kept[i][c]

C4_Witness ==
    /\ pc = "filtered"
    /\ Len(csv_df.rows) = 2
    /\ Len(filtered_out.rows) = 1
    /\ IsNull(csv_df.rows[1][MonthCol("tmp", 1, "mean")])
    /\ IsNull(csv_df.rows[2][MonthCol("prec", 1, "mean")])
    /\ IsNull(csv_df.rows[2][MonthCol("sndp", 7, "max")])
    /\ filtered_out.rows[1][MonthCol("prec", 1, "mean")] = Num(0)
    /\ filtered_out.rows[1][MonthCol("sndp", 7, "max")] = Num(0)
    /\ filtered_out.rows[1][Str("stn")] = csv_df.rows[2][Str("stn")]

-----------------------------------------------------------------------------
(* The Raw Record Parser alone: read_gsod_file on the lines of one file *)

MaxDays == 3

\* tokens of the .op files of the model
Text24 == <<"2", "4">>

Text40_0 == <<"4", "0", ".", "0">>

Text1013_0 == <<"1", "0", "1", "3", ".", "0">>

Text10_0 == <<"1", "0", ".", "0">>

Text75_0 == <<"7", "5", ".", "0">>

Text9999Star == <<"9", "9", "9", "9", ".", "9", "*">>

Text80_1 == <<"8", "0", ".", "1">>

Text80_1Star == <<"8", "0", ".", "1", "*">>

Text60_2 == <<"6", "0", ".", "2">>

Text60_2Star == <<"6", "0", ".", "2", "*">>

Text0_05 == <<"0", ".", "0", "5">>

Text0_05G == <<"0", ".", "0", "5", "G">>

Text0_12 == <<"0", ".", "1", "2">>

Text99A == <<"9", "9", ".", "9", "9", "A">>

Text999 == <<"9", "9", "9", ".", "9">>

Text1_2 == <<"1", ".", "2">>

Text201601 == <<"2", "0", "1", "6", "0", "1">>

Text010010 == <<"0", "1", "0", "0", "1", "0">>

Text943260 == <<"9", "4", "3", "2", "6", "0">>

\* a data line of a .op file: the tokens at the positions read_gsod_file uses
GsodLine(stn, day, tmp, max, min, prec, sndp) ==
    [col \in RawCols |->
        CASE col = 0  -> stn
          [] col = 2  -> day
          [] col = 3  -> tmp
          [] col = 4  -> Text24
          [] col = 5  -> Text40_0
          [] col = 6  -> Text24
          [] col = 9  -> Text1013_0
          [] col = 10 -> Text24
          [] col = 13 -> Text10_0
          [] col = 14 -> Text24
          [] col = 17 -> max
          [] col = 18 -> min
          [] col = 19 -> prec
          [] col = 20 -> sndp]

\* the readings of a day: plain numbers; every sentinel; flagged values;
\* flagged sentinels; plain values beside the flagged ones of other days
DayReadings ==
    { [tmp |-> Text75_0,   max |-> Text80_1,    min |-> Text60_2,   prec |-> Text0_05,
       sndp |-> Text999],
      [tmp |-> Text9999, max |-> Text9999,  min |-> Text9999, prec |-> Text99,
       sndp |-> Text999],
      [tmp |-> Text75_0,   max |-> Text80_1Star,   min |-> Text60_2Star,  prec |-> Text0_05G,
       sndp |-> Text1_2],
      [tmp |-> Text75_0,   max |-> Text9999Star, min |-> Text9999, prec |-> Text99A,
       sndp |-> Text1_2],
      [tmp |-> Text75_0,   max |-> Text80_1,    min |-> Text60_2Star,  prec |-> Text0_12,
       sndp |-> Text999] }

\* the file of a station: day i of January 2016 holds the i-th readings
StationFile(stn, readings) ==
    [i \in 1..Len(readings) |->
        GsodLine(stn, Text201601 \o ZeroPad(i, 2), readings[i].tmp, readings[i].max,
                 readings[i].min, readings[i].prec, readings[i].sndp)]

InitParse ==
    /\ pc = "start"
    /\ \E readings \in SeqsUpTo(DayReadings, MaxDays) :
          op_lines = StationFile(Text010010, readings)
    /\ raw_df = <<>>
    /\ ori_df = EmptyFrame
    /\ ShiftIdle /\ FilterIdle /\ UnzipIdle /\ MonthlyIdle /\ KeyIdle

\* TEST_DF = read_gsod_file(filename)
ReadGsodFile ==
    /\ pc = "start"
    /\ raw_df' = read_csv(op_lines)
    /\ ori_df' = read_gsod_file(op_lines)
    /\ pc' = "parsed"
    /\ UNCHANGED <<op_lines, shiftVars, filterVars, unzipVars, monthlyVars, keyVars>>

NextParse == ReadGsodFile

SpecParse == InitParse /\ [][NextParse]_vars


Parsed == pc = "parsed" /\ ori_df.error = ""

\* C6 as stated: a raw precipitation value of 99.99 and a raw snowfall value
\* of 999.9 are both absent in the parsed daily record, and become 0.0 only at
\* the zero-fill of the Missing-Value Filter.
C6_BothSentinelsAbsent ==
    Parsed =>
        \A i \in 1..Len(op_lines) :
            /\ op_lines[i][19] = Text99 => IsNull(ori_df.rows[i][Str("prec")])
            /\ op_lines[i][20] = Text999 => IsNull(ori_df.rows[i][Str("sndp")])

\* C6 as amended: a raw precipitation value of 99.99 is absent in the parsed
\* daily record, and a raw snowfall value of 999.9 is 0.0 in the parsed daily
\* record already, before the Missing-Value Filter runs.
C6_PrecAbsentSnowZero ==
    Parsed =>
        \A i \in 1..Len(op_lines) :
            /\ op_lines[i][19] = Text99 => IsNull(ori_df.rows[i][Str("prec")])
            /\ op_lines[i][20] = Text999 => ori_df.rows[i][Str("sndp")] = Num(0)

C6_Witness ==
    /\ Parsed
    /\ \E i, j \in 1..Len(op_lines) :
          /\ op_lines[i][19] = Text99
          /\ op_lines[i][20] = Text999
          /\ IsNull(ori_df.rows[i][Str("prec")])
          /\ ori_df.rows[i][Str("sndp")] = Num(0)
          /\ IsStrCell(raw_df[1][19])
          /\ op_lines[j][20] # Text999
          /\ ori_df.rows[j][Str("sndp")] # Num(0)

\* the number a token writes: the token without its trailing flag character
NumberText(tok) ==
    IF IsDigit(tok[Len(tok)]) THEN tok ELSE SubSeq(tok, 1, Len(tok) - 1)

\* C10: in a file whose max/min-temperature and precipitation fields are
\* strings, a max/min token whose number is 9999.9 is absent with or without a
\* flag, a precipitation token whose number is 99.99 is absent, and any other
\* token is worth the number written in it, converted.
C10_FlagStrippedOnly ==
    (Parsed /\ \A col \in {17, 18, 19} : IsStrCell(raw_df[1][col])) =>
        \A i \in 1..Len(op_lines) :
            /\ ori_df.rows[i][Str("max_tmp")] =
                  IF NumberText(op_lines[i][17]) = Text9999 THEN NaN
                  ELSE FtoC(Num(Scaled(NumberText(op_lines[i][17]), 1)))
            /\ ori_df.rows[i][Str("min_tmp")] =
                  IF NumberText(op_lines[i][18]) = Text9999 THEN NaN
                  ELSE FtoC(Num(Scaled(NumberText(op_lines[i][18]), 1)))
            /\ ori_df.rows[i][Str("prec")] =
                  IF NumberText(op_lines[i][19]) = Text99 THEN NaN
                  ELSE PrecToMm(Num(Scaled(NumberText(op_lines[i][19]), 2)))

-----------------------------------------------------------------------------
(* The Archive Extractor and the Monthly Aggregator: unzip_gsod_files and
   processing_monthly_data on every small archive *)

MaxMembers == 3

MaxCap == 2

NameDir == <<".", "/">>

NameA == <<"0", "1", "0", "0", "1", "0", "-", "9", "9", "9", "9", "9", "-", "2", "0", "1", "6", ".", "o", "p", ".", "g", "z">>

NameB == <<"9", "4", "3", "2", "6", "0", "-", "9", "9", "9", "9", "9", "-", "2", "0", "1", "6", ".", "o", "p", ".", "g", "z">>

NameC == <<"9", "9", "9", "9", "9", "9", "-", "9", "9", "9", "9", "9", "-", "2", "0", "1", "6", ".", "o", "p", ".", "g", "z">>

StationReadings == CHOOSE r \in DayReadings : r.max = Text80_1Star

\* the members of the archives: the directory entry, the files of two
\* stations, and a file that holds its header line only
ArchiveMembers ==
    { [name |-> NameDir, lines |-> <<>>],
      [name |-> NameA, lines |-> StationFile(Text010010, <<StationReadings>>)],
      [name |-> NameB, lines |-> StationFile(Text943260, <<StationReadings, StationReadings>>)],
      [name |-> NameC, lines |-> <<>>] }

InitArchive ==
    /\ pc = "start"
    /\ maintar \in SeqsUpTo(ArchiveMembers, MaxMembers)
    /\ numfile \in {NaN, Inf} \cup { Num(n) : n \in 0..MaxCap }
    /\ pos = 0
    /\ num = 0
    /\ disk = {}
    /\ dfdict = <<>>
    /\ processed = 0
    /\ finaldf = EmptyFrame
    /\ ShiftIdle /\ FilterIdle /\ ParseIdle /\ KeyIdle

\* DF_DICT = unzip_gsod_files(tarfilename, numfile)
UnzipGsodFiles ==
    /\ pc = "start"
    /\ \E st \in {unzip_gsod_files(maintar, numfile)} :
           /\ pos' = st.pos
           /\ num' = st.num
           /\ disk' = st.disk
           /\ processed' = st.processed
           /\ dfdict' = IF st.error = "" THEN st.dfdict ELSE <<>>
           /\ pc' = IF st.error = "" THEN "returned" ELSE "raised"
    /\ UNCHANGED <<maintar, numfile, finaldf, shiftVars, filterVars, parseVars, keyVars>>

\* FINALDF = processing_monthly_data(tarfilename, numfile)
ProcessingMonthlyData ==
    /\ pc = "start"
    /\ \E st \in {unzip_gsod_files(maintar, numfile)} :
           /\ pos' = st.pos
           /\ num' = st.num
           /\ disk' = st.disk
           /\ processed' = st.processed
           /\ dfdict' = IF st.error = "" THEN st.dfdict ELSE <<>>
    /\ finaldf' = processing_monthly_data(maintar, numfile)
    /\ pc' = "monthly"
    /\ UNCHANGED <<maintar, numfile, shiftVars, filterVars, parseVars, keyVars>>

NextArchive == UnzipGsodFiles \/ ProcessingMonthlyData

SpecArchive == InitArchive /\ [][NextArchive]_vars

GzMembers == SelectSeq(maintar, LAMBDA m : Contains(GzText, m.name))

\* the values of quantity txt on the days of month m of a daily table
DaysOfMonth(df, m, txt) ==
    LET days == SelectSeq(df.rows, LAMBDA r : r[Str("date")].month = m)
    IN  [i \in 1..Len(days) |-> days[i][Str(txt)]]

\* C5: on the daily tables that read_gsod_file produces, processing_monthly_data
\* completes without error and gives one row per station whose mean, max and
\* min columns of month m and quantity q are computed over the days of month
\* m, absent values ignored, and are absent when no value is left.
C5_MonthlyAggregation ==
    (pc = "monthly" /\ \A k \in 1..Len(GzMembers) :
                          read_gsod_file(GzMembers[k].lines).error = "") =>
        /\ finaldf.error = ""
        /\ Len(finaldf.rows) = Len(dfdict)
        /\ \A k \in 1..Len(finaldf.rows) : \A m \in Months : \A q \in 1..6 :
              LET days == DaysOfMonth(dfdict[k].df, m, Quantities[q])
                  row  == finaldf.rows[k]
              IN  /\ row[MonthCol(Quantities[q], m, "mean")] = SeriesMean(days)
                  /\ row[MonthCol(Quantities[q], m, "max")] = SeriesMax(days)
                  /\ row[MonthCol(Quantities[q], m, "min")] = SeriesMin(days)

\* C7: whenever unzip_gsod_files returns or raises, no file extracted from the
\* archive remains on disk.
C7_ExtractedFilesDeleted ==
    pc \in {"returned", "raised"} => disk = {}

\* C8: with a cap numfile = N at most N members are extracted and parsed;
\* without a cap every '.gz' member is.
C8_CapBoundsProcessed ==
    /\ (pc = "returned" /\ "v" \in DOMAIN numfile /\ ~isnan(numfile))
          => processed <= numfile.v
    /\ (pc = "returned" /\ ("inf" \in DOMAIN numfile \/ isnan(numfile)))
          => processed = Len(GzMembers)

-----------------------------------------------------------------------------
(* The two sides of the join: the stn of the weather tables and the stn of
   the registry, for the same stations, and the merge of shift_data *)

MaxStations == 2

StationTokens == { [usaf |-> 10010, text |-> Text010010],
                   [usaf |-> 943260, text |-> Text943260] }

InitKey ==
    /\ pc = "start"
    /\ registry \in SeqsUpTo(RegistryLines, MaxLoc)
    /\ opfiles \in SeqsUpTo(StationTokens, MaxStations)
    /\ ShiftIdle /\ FilterIdle /\ ParseIdle /\ UnzipIdle /\ MonthlyIdle

\* the weather side: the stn that read_gsod_file sets from the first token of
\* the lines of a station file is the key under which unzip_gsod_files files
\* the table, the stn of the station's row of the monthly table and, through
\* the csv files, the stn of the table that datafiltering returns
ReadWeatherSide ==
    /\ pc \in {"start", "history"}
    /\ filtereddf' =
          WeatherFrame([i \in 1..Len(opfiles) |->
              read_gsod_file(StationFile(opfiles[i].text, <<StationReadings>>))
                 .rows[1][Str("stn")]])
    /\ pc' = IF pc = "start" THEN "weather" ELSE "read"
    /\ UNCHANGED <<locdf, overall_df, again_df, registry, opfiles,
                   filterVars, parseVars, unzipVars, monthlyVars>>

\* HISTORY_DF = read_history(histfilename)
ReadHistory ==
    /\ pc \in {"start", "weather"}
    /\ locdf' = read_history(registry)
    /\ pc' = IF pc = "start" THEN "history" ELSE "read"
    /\ UNCHANGED <<filtereddf, overall_df, again_df, registry, opfiles,
                   filterVars, parseVars, unzipVars, monthlyVars>>

\* shift_data(FILTERED_DF, HISTORY_DF, '')
JoinStations ==
    /\ pc = "read"
    /\ overall_df' = shift_data(filtereddf, locdf)
    /\ pc' = "joined"
    /\ UNCHANGED <<filtereddf, locdf, again_df, registry, opfiles,
                   filterVars, parseVars, unzipVars, monthlyVars>>

NextKey == ReadWeatherSide \/ ReadHistory \/ JoinStations

SpecKey == InitKey /\ [][NextKey]_vars

\* C9: for every station the stn that read_history builds equals the stn of
\* the weather side, so that the inner join of shift_data keeps every
\* filtered station that has a registry entry.
C9_JoinKeysMatch ==
    pc = "joined" =>
        \A i \in 1..Len(opfiles) : \A j \in 1..Len(registry) :
            opfiles[i].usaf = registry[j].usaf =>
                /\ filtereddf.rows[i][Str("stn")] = locdf.rows[j][Str("stn")]
                /\ \E k \in 1..Len(overall_df.rows) :
                      overall_df.rows[k][Str("USAF")] = PyInt(opfiles[i].usaf)

====
